---- MODULE Spec2Model ----
(***************************************************************************)
(* A model of @gibme/mysql (src/src/mysql.ts): the MySQL class, a helper   *)
(* around the pool of the `mysql` driver.  The executor part models every  *)
(* await of transaction()/query() as one step of a call; the driver (pool, *)
(* connections, server) is the environment and answers each operation with *)
(* success or an error.                                                    *)
(***************************************************************************)
EXTENDS Integers, Sequences, FiniteSets, TLC

\* ------------------------------------------------------------------ bounds
NumCalls == 2    \* calls of the API that may be in flight together
NumConns == 1    \* connections of the pool
MaxStmts == 2    \* statements of a transaction() batch
MaxCols == 2     \* columns of a table, and values of a row
MaxRows == 2     \* rows of a multi-insert
MaxPk == 1       \* columns of a primary key

Calls == 1..NumCalls
Conns == 1..NumConns
NoCall == 0
NoConn == 0
Undefined == "undefined"

VARIABLES
    pc,        \* pc[k]: the await call k is suspended at
    call,      \* call[k]: the API call and its arguments
    conn,      \* conn[k]: `connection` of transaction()
    idx,       \* idx[k]: position of the for..of loop over the queries
    results,   \* results[k]: `results` of transaction(), or of the calls of query()
    caught,    \* caught[k]: `error` of the catch block
    outcome,   \* outcome[k]: how the promise of call k settled
    released,  \* released[k]: calls of connection.release() made by call k
    holder,    \* holder[c]: the call connection c is checked out to
    trace,     \* trace[k]: what call k asked of which connection, in order
    effects,   \* statements whose effect is durable in the database
    args,      \* arguments of a direct call of a prepare* method
    built      \* what that call returned or threw

execVars == <<pc, call, conn, idx, results, caught, outcome, released, holder, trace, effects>>
vars == <<pc, call, conn, idx, results, caught, outcome, released, holder, trace, effects,
          args, built>>

\* ------------------------------------------------------------ SQL text
\* SQL text is a sequence of pieces: literal text of the source ("kw"), an
\* identifier that went through the driver's escapeId() ("id"), and a caller's
\* string placed into the text as it is ("raw").
Kw(s) == <<"kw", s>>
Raw(s) == <<"raw", s>>
Sp == Kw(" ")

\* escapeId() of the driver: the identifier, quoted for the dialect.
escapeId(s) == <<"id", s>>

\* Array.prototype.join(sep) over pieces of text.
RECURSIVE Join(_, _)
Join(parts, sep) ==
    IF Len(parts) = 0 THEN <<>>
    ELSE IF Len(parts) = 1 THEN parts[1]
    ELSE parts[1] \o sep \o Join(Tail(parts), sep)

\* String.prototype.trim(): white space at either end goes.
RECURSIVE TrimStart(_)
TrimStart(text) ==
    IF Len(text) > 0 /\ text[1] = Sp THEN TrimStart(Tail(text)) ELSE text

RECURSIVE TrimEnd(_)
TrimEnd(text) ==
    IF Len(text) > 0 /\ text[Len(text)] = Sp
    THEN TrimEnd(SubSeq(text, 1, Len(text) - 1))
    ELSE text

Trim(text) == TrimEnd(TrimStart(text))

ValidationError(msg) == [type |-> "validation", msg |-> msg]
Threw(e) == [ok |-> FALSE, error |-> e]
Returned(v) == [ok |-> TRUE, value |-> v]
NoArgs == [fn |-> "none"]
NotBuilt == [ok |-> FALSE, error |-> [type |-> "none"]]

\* ----------------------------------------------------- prepareMultiInsert
\* toPlaceholders(arr): one '?' per element, joined by commas.
toPlaceholders(arr) == Join([i \in 1..Len(arr) |-> <<Kw("?")>>], <<Kw(",")>>)

\* The loop that pushes every row's values onto `parameters`.
RECURSIVE Parameters(_)
\* Parameters with each row put in front of the rows before it.
RECURSIVE ParametersUnshift(_)
ParametersUnshift(values) ==
    IF Len(values) = 0 THEN <<>> ELSE ParametersUnshift(Tail(values)) \o values[1]

Parameters(values) ==
    IF Len(values) = 0 THEN <<>> ELSE values[1] \o Parameters(Tail(values))

\* The loop that pushes `placeholder` once per row.
Placeholders(values, placeholder) == [r \in 1..Len(values) |-> placeholder]

\* ColumnCountMismatch that looks at the first row only.
ColumnCountMismatchFirstRow(columns, values) == Len(values[1]) # Len(columns)

\* The loop that compares every row's length with the column count.
ColumnCountMismatch(columns, values) ==
    \E r \in 1..Len(values) : Len(values[r]) # Len(columns)

prepareMultiInsert(table, columns, values) ==
    IF Len(values) = 0 THEN Threw(ValidationError("Must supply values"))
    ELSE IF Len(columns) # 0 /\ ColumnCountMismatch(columns, values)
    THEN Threw(ValidationError("Column count does not match values count"))
    ELSE
        LET _columns ==
                IF Len(columns) # 0
                THEN <<Sp, Kw("(")>>
                     \o Join([i \in 1..Len(columns) |-> <<escapeId(columns[i])>>], <<Kw(",")>>)
                     \o <<Kw(")")>>
                ELSE <<>>
            placeholder ==
                IF Len(columns) # 0
                THEN <<Kw("(")>> \o toPlaceholders(columns) \o <<Kw(")")>>
                ELSE <<Kw("(")>> \o toPlaceholders(values[1]) \o <<Kw(")")>>
        IN Returned(
             [query |-> Trim(<<Kw("INSERT INTO"), Sp, escapeId(table)>> \o _columns
                             \o <<Sp, Kw("VALUES"), Sp>>
                             \o Join(Placeholders(values, placeholder), <<Kw(",")>>)),
              values |-> Parameters(values)])

\* ----------------------------------------------------- prepareMultiUpdate
\* primaryKey.includes(column)
Includes(primaryKey, column) == \E i \in 1..Len(primaryKey) : primaryKey[i] = column

\* The loop that collects `updates`: one assignment per column that is not
\* part of the primary key.
RECURSIVE Updates(_, _)
\* Updates without the `continue` for primary-key columns.
UpdatesNoSkip(primaryKey, columns) ==
    [i \in 1..Len(columns) |->
        <<escapeId(columns[i]), Sp, Kw("="), Sp, Kw("VALUES("), escapeId(columns[i]), Kw(")")>>]

Updates(primaryKey, columns) ==
    IF Len(columns) = 0 THEN <<>>
    ELSE IF Includes(primaryKey, columns[1]) THEN Updates(primaryKey, Tail(columns))
    ELSE <<<<escapeId(columns[1]), Sp, Kw("="), Sp, Kw("VALUES("),
             escapeId(columns[1]), Kw(")")>>>>
         \o Updates(primaryKey, Tail(columns))

prepareMultiUpdate(table, primaryKey, columns, values) ==
    IF Len(columns) = 0
    THEN Threw(ValidationError("Must specify columns for multi-update"))
    ELSE IF Len(primaryKey) = 0
    THEN Threw(ValidationError("Must specify primary key column(s) for multi-update"))
    ELSE
        LET query == prepareMultiInsert(table, columns, values)
        IN IF ~query.ok THEN query
           ELSE Returned(
                  [query |-> query.value.query
                             \o <<Sp, Kw("ON DUPLICATE KEY UPDATE"), Sp>>
                             \o Join(Updates(primaryKey, columns), <<Kw(",")>>),
                   values |-> query.value.values])

\* ----------------------------------------------------- prepareCreateTable
\* An optional property of a Column or ForeignKey: absent, or present with a value.
None == <<>>
Some(v) == <<v>>
IsDefined(o) == Len(o) > 0

\* String.prototype.toUpperCase() on the column types the model passes.
toUpperCase(s) ==
    CASE s = "integer" -> "INTEGER"
      [] s = "varchar(255)" -> "VARCHAR(255)"
      [] OTHER -> s

\* String.prototype.trim() on the column names the model passes.
TrimName(s) ==
    CASE s = " c1" -> "c1"
      [] OTHER -> s

\* sqlToQuery(sql, values = [])
sqlToQuery(sql, values) == [query |-> Trim(sql), values |-> values]

\* fields.map(...): the default values pushed onto `values`, in column order.
RECURSIVE DefaultValues(_)
DefaultValues(fields) ==
    IF Len(fields) = 0 THEN <<>>
    ELSE (IF IsDefined(fields[1].default) THEN <<fields[1].default[1]>> ELSE <<>>)
         \o DefaultValues(Tail(fields))

\* fields.map(...): the definition of one column.
FieldSql(column) ==
    Trim(<<escapeId(column.name), Sp, Raw(toUpperCase(column.type)), Sp,
           Kw(IF column.nullable = Some(TRUE) THEN "NULL" ELSE "NOT NULL"), Sp>>
         \o (IF IsDefined(column.default) THEN <<Kw("DEFAULT ?")>> ELSE <<>>))

\* fields.filter(elem => elem.unique === true)
RECURSIVE UniqueFields(_)
\* UniqueFields that takes every column whose `unique` is given, true or false.
RECURSIVE UniqueFieldsAny(_)
UniqueFieldsAny(fields) ==
    IF Len(fields) = 0 THEN <<>>
    ELSE (IF IsDefined(fields[1].unique) THEN <<fields[1]>> ELSE <<>>)
         \o UniqueFieldsAny(Tail(fields))

UniqueFields(fields) ==
    IF Len(fields) = 0 THEN <<>>
    ELSE (IF fields[1].unique = Some(TRUE) THEN <<fields[1]>> ELSE <<>>)
         \o UniqueFields(Tail(fields))

\* The CREATE UNIQUE INDEX statement of one column; `name` is escaped already.
UniqueSql(name, column) ==
    <<Kw("CREATE UNIQUE INDEX IF NOT EXISTS"), Sp, name, Kw("_unique_"),
      escapeId(column.name), Sp, Kw("ON"), Sp, name, Sp, Kw("("),
      escapeId(TrimName(column.name)), Kw(")")>>

\* The foreign-key constraint of one column; `name` is escaped already.
ConstraintSql(name, field) ==
    LET fk == field.foreignKey[1]
    IN Trim(<<Kw(","), Sp, Kw("CONSTRAINT"), Sp, name, Kw("_"), escapeId(field.name),
              Kw("_foreign_key FOREIGN KEY"), Sp, Kw("("), escapeId(field.name), Kw(")"),
              Sp, Kw("REFERENCES"), Sp, Raw(fk.table), Sp, Kw("("), Raw(fk.column), Kw(")")>>
            \o (IF IsDefined(fk.onDelete)
                THEN <<Sp, Kw("ON DELETE"), Sp, Raw(fk.onDelete[1])>> ELSE <<>>)
            \o (IF IsDefined(fk.onUpdate)
                THEN <<Sp, Kw("ON UPDATE"), Sp, Raw(fk.onUpdate[1])>> ELSE <<>>))

\* The loop over the fields that have a foreign key.
RECURSIVE Constraints(_, _)
Constraints(name, fields) ==
    IF Len(fields) = 0 THEN <<>>
    ELSE (IF IsDefined(fields[1].foreignKey)
          THEN <<ConstraintSql(name, fields[1])>> ELSE <<>>)
         \o Constraints(name, Tail(fields))

prepareCreateTable(name, fields, primaryKey, tableOptions) ==
    LET _name == escapeId(name)
        _primaryKey == [i \in 1..Len(primaryKey) |-> <<escapeId(primaryKey[i])>>]
        _fields == [i \in 1..Len(fields) |-> FieldSql(fields[i])]
        _unique == UniqueFields(fields)
        sql == <<Kw("CREATE TABLE IF NOT EXISTS"), Sp, _name, Sp, Kw("(")>>
               \o Join(_fields, <<Kw(",")>>)
               \o <<Kw(","), Sp, Kw("PRIMARY KEY"), Sp, Kw("(")>>
               \o Join(_primaryKey, <<Kw(",")>>)
               \o <<Kw(")")>>
               \o Join(Constraints(_name, fields), <<Kw(",")>>)
               \o <<Kw(")"), Sp, Raw(tableOptions), Kw(";")>>
    IN <<sqlToQuery(sql, DefaultValues(fields))>>
       \o [i \in 1..Len(_unique) |-> sqlToQuery(UniqueSql(_name, _unique[i]), <<>>)]

\* public tableOptions
tableOptions == "ENGINE=InnoDB PACK_KEYS=1 ROW_FORMAT=COMPRESSED"

\* --------------------------------------------- use, listTables, dropTable
\* The statement use(database) hands to query().
useQuery(database) == <<Kw("USE"), Sp, escapeId(database)>>

\* The statement listTables(database) hands to query(); `database` is the
\* argument or config.database, and may be undefined.
listTablesQuery(database) ==
    <<Kw("SHOW TABLES")>>
    \o (IF IsDefined(database) THEN <<Sp, Kw("FROM"), Sp, escapeId(database[1])>> ELSE <<>>)

\* The statements dropTable(tables) hands to transaction(): one per table.
dropTableQueries(tables) ==
    [i \in 1..Len(tables) |->
        [query |-> <<Kw("DROP TABLE IF EXISTS"), Sp, escapeId(tables[i])>>,
         values |-> Undefined]]

\* ------------------------------------------------------------ constructor
\* `this.config.rejectUnauthorized ??= true`
RejectUnauthorizedDefaultTrue(given) == IF IsDefined(given) THEN given ELSE Some(TRUE)

\* `this.config.rejectUnauthorized ??= false`
RejectUnauthorized(given) == IF IsDefined(given) THEN given ELSE Some(FALSE)

\* The constructor: the configuration it hands to createPool().  An `ssl` the
\* caller gave stays as it is; one left out becomes { rejectUnauthorized }.
Constructor(config) ==
    LET rejectUnauthorized == RejectUnauthorized(config.rejectUnauthorized)
    IN [rejectUnauthorized |-> rejectUnauthorized,
        ssl |-> IF IsDefined(config.ssl) THEN config.ssl
                ELSE Some([rejectUnauthorized |-> rejectUnauthorized])]

\* ------------------------------------------------ arguments callers pass
SeqsUpTo(S, n) == UNION {[1..m -> S] : m \in 0..n}

ColumnNames == {"c1", "c2"}

\* Row r of a multi-insert, with `len` values; a value says where it stands.
Row(r, len) == [c \in 1..len |-> <<"v", r, c>>]

\* The row sets: up to MaxRows rows of up to MaxCols values each.
RowSets == {[r \in 1..Len(lens) |-> Row(r, lens[r])] : lens \in SeqsUpTo(0..MaxCols, MaxRows)}

InsertArgs ==
    [fn : {"prepareMultiInsert"}, table : {"t"},
     columns : SeqsUpTo(ColumnNames, MaxCols), values : RowSets]

UpdateArgs ==
    [fn : {"prepareMultiUpdate"}, table : {"t"},
     primaryKey : SeqsUpTo(ColumnNames, MaxPk),
     columns : SeqsUpTo(ColumnNames, MaxCols), values : RowSets]

\* The foreign keys a caller may give a column: none, one without actions,
\* one with both actions (values of the enum ForeignKeyConstraint).
ForeignKeys ==
    {None,
     Some([table |-> "ft", column |-> "fc", onDelete |-> None, onUpdate |-> None]),
     Some([table |-> "ft", column |-> "fc",
           onDelete |-> Some("CASCADE"), onUpdate |-> Some("SET NULL")])}

\* What a caller may say of a column besides its name and type.
ColumnShapes == [unique : {None, Some(TRUE), Some(FALSE)}, hasDefault : BOOLEAN,
                 foreignKey : ForeignKeys]

\* Column i of a table.
SampleColumn(i, shape) ==
    [name |-> IF i = 1 THEN "c1" ELSE IF i = 2 THEN "c2" ELSE "c3",
     type |-> IF i = 1 THEN "varchar(255)" ELSE "integer",
     nullable |-> None,
     default |-> IF shape.hasDefault
                 THEN Some(IF i = 1 THEN "d1" ELSE IF i = 2 THEN "d2" ELSE "d3")
                 ELSE None,
     unique |-> shape.unique,
     foreignKey |-> shape.foreignKey]

\* Tables of 1..MaxCols columns; the primary key may be left empty.
CreateArgs ==
    [fn : {"prepareCreateTable"}, name : {"t"},
     fields : {[i \in 1..Len(u) |-> SampleColumn(i, u[i])] :
                  u \in SeqsUpTo(ColumnShapes, MaxCols) \ {<<>>}},
     primaryKey : SeqsUpTo(ColumnNames, MaxPk), tableOptions : {tableOptions}]

\* The tables createTable is called with: those without foreign keys whose
\* columns are flagged unique or not flagged.
ApiCreateArgs ==
    {a \in CreateArgs :
        \A i \in 1..Len(a.fields) :
            a.fields[i].foreignKey = None /\ a.fields[i].unique # Some(FALSE)}

DatabaseNames == {"db"}
TableNames == {"t", "t2"}

UseArgs == [fn : {"use"}, database : DatabaseNames]

ListTablesArgs == [fn : {"listTables"}, database : {None} \cup {Some(d) : d \in DatabaseNames}]

DropTableArgs == [fn : {"dropTable"}, tables : SeqsUpTo(TableNames, MaxStmts)]

\* What a caller may say about TLS: the flag of the wrapper, given or not,
\* and the driver's `ssl` option, given (with or without its own flag) or not.
SslOptions == {None} \cup {Some([rejectUnauthorized |-> r]) : r \in {None, Some(TRUE), Some(FALSE)}}

ConstructorArgs ==
    [fn : {"constructor"},
     config : [rejectUnauthorized : {None, Some(TRUE), Some(FALSE)}, ssl : SslOptions]]

\* --------------------------------------------------------------- the driver
\* An error reported by the driver for operation `op` (statement i of call k).
DriverError(k, op, i) == [type |-> "driver", by |-> k, op |-> op, i |-> i]

\* The rows the driver reports for statement i of call k.
DriverRows(k, i) == <<"rows", k, i>>

\* One entry of a trace: operation `op` (statement i, text and values q) sent
\* on connection c, which the pool had checked out to call h at that moment.
Ev(op, i, q, c, h) == [op |-> op, i |-> i, q |-> q, c |-> c, h |-> h, st |-> "sent"]

\* The driver's callback for the operation the call waits for.
Answer(t, ok) == [t EXCEPT ![Len(t)].st = IF ok THEN "ok" ELSE "fail"]

\* The pool hands out a free connection.  Free connections carry no state
\* here, so which one it picks is a renaming: the first free one.
FirstFree(c) ==
    /\ holder[c] = NoCall
    /\ \A d \in Conns : d < c => holder[d] # NoCall

\* Statements a caller may pass: SQL text with or without bound values.
SampleQuery(i) ==
    [query |-> <<<<"raw", "stmt">>, <<"raw", i>>>>,
     values |-> IF i % 2 = 0 THEN Undefined ELSE <<i>>]

SampleQueries(n) == [i \in 1..n |-> SampleQuery(i)]

\* ---------------------------------------------------------------- query()
\* The (query, values) pair query() hands to connection.query().
QueryArgs(query, values) ==
    IF values = Undefined THEN [query |-> query, values |-> <<>>]
    ELSE [query |-> query, values |-> values]

\* What query() resolves with: the rows and the statement that produced them.
QueryResult(k, i, q) ==
    [rows |-> DriverRows(k, i), query |-> q.query, values |-> q.values]

Resolved(v) == [st |-> "resolved", val |-> v]
Rejected(e) == [st |-> "rejected", err |-> e]
Pending == [st |-> "pending"]

\* --------------------------------------------------------- transaction()
\* transaction(queries): everything up to the first await.
StartTransaction(k, n) ==
    /\ pc[k] = "idle"
    /\ call' = [call EXCEPT ![k] =
                   [kind |-> "transaction", useTransaction |-> None, input |-> <<>>,
                    queries |-> SampleQueries(n)]]
    /\ pc' = [pc EXCEPT ![k] = "connecting"]
    /\ UNCHANGED <<args, built, conn, idx, results, caught, outcome, released, holder, trace, effects>>

\* pool.getConnection() hands out a free connection; transaction() resumes
\* and calls beginTransaction() on it.
ConnGranted(k, c) ==
    /\ pc[k] = "connecting"
    /\ FirstFree(c)
    /\ holder' = [holder EXCEPT ![c] = k]
    /\ conn' = [conn EXCEPT ![k] = c]
    /\ trace' = [trace EXCEPT ![k] = <<Ev("begin", 0, <<>>, c, k)>>]
    /\ pc' = [pc EXCEPT ![k] = "beginning"]
    /\ UNCHANGED <<args, built, call, idx, results, caught, outcome, released, effects>>

\* pool.getConnection() reports an error: connection() rejects before the try.
ConnFailed(k) ==
    /\ pc[k] = "connecting"
    /\ outcome' = [outcome EXCEPT ![k] = Rejected(DriverError(k, "connect", 0))]
    /\ pc' = [pc EXCEPT ![k] = "done"]
    /\ UNCHANGED <<args, built, call, conn, idx, results, caught, released, holder, trace, effects>>

\* The statement the loop sends as its i-th: this.query(query.query, query.values, connection).
TxQueryArgs(k, i) == QueryArgs(call[k].queries[i].query, call[k].queries[i].values)

\* The connection the loop sends its statements on.
TxQueryConn(k) == conn[k]

\* The finally block: connection.release().  The pool takes the connection
\* back from whoever holds it.
Release(k, t) == Append(t, [Ev("release", 0, <<>>, conn[k], holder[conn[k]]) EXCEPT !.st = "ok"])

\* What the caller of the API call gets from the results of its transaction.
ReturnValue(k, rs) ==
    CASE call[k].kind = "createTable" -> <<>>
      [] call[k].kind \in {"multiInsert", "multiUpdate"} -> rs[1]
      [] OTHER -> rs

\* TryNext with the loop ending one statement early.
TryNextOffByOne(k, i, t) ==
    IF i < Len(call[k].queries)
    THEN [pc |-> "querying",
          trace |-> Append(t, Ev("query", i, TxQueryArgs(k, i), TxQueryConn(k),
                                 holder[TxQueryConn(k)]))]
    ELSE [pc |-> "committing",
          trace |-> Append(t, Ev("commit", 0, <<>>, conn[k], holder[conn[k]]))]

\* The try block after begin or statement i-1 succeeded: the next statement
\* of the loop, or commit when the loop is over.
TryNext(k, i, t) ==
    IF i <= Len(call[k].queries)
    THEN [pc |-> "querying",
          trace |-> Append(t, Ev("query", i, TxQueryArgs(k, i), TxQueryConn(k),
                                 holder[TxQueryConn(k)]))]
    ELSE [pc |-> "committing",
          trace |-> Append(t, Ev("commit", 0, <<>>, conn[k], holder[conn[k]]))]

\* The catch block up to its await: rollbackTransaction(connection).
CatchSend(k, t) == Append(t, Ev("rollback", 0, <<>>, conn[k], holder[conn[k]]))

BeginOk(k) ==
    /\ pc[k] = "beginning"
    /\ LET nx == TryNext(k, 1, Answer(trace[k], TRUE))
       IN /\ trace' = [trace EXCEPT ![k] = nx.trace]
          /\ pc' = [pc EXCEPT ![k] = nx.pc]
          /\ idx' = [idx EXCEPT ![k] = 1]
    /\ UNCHANGED <<args, built, call, conn, results, caught, outcome, released, holder, effects>>

BeginFail(k) ==
    /\ pc[k] = "beginning"
    /\ trace' = [trace EXCEPT ![k] = CatchSend(k, Answer(trace[k], FALSE))]
    /\ caught' = [caught EXCEPT ![k] = DriverError(k, "begin", 0)]
    /\ pc' = [pc EXCEPT ![k] = "rollingback"]
    /\ UNCHANGED <<args, built, call, conn, idx, results, outcome, released, holder, effects>>

QueryOk(k) ==
    /\ pc[k] = "querying"
    /\ LET i == idx[k]
           nx == TryNext(k, i + 1, Answer(trace[k], TRUE))
       IN /\ results' = [results EXCEPT ![k] = Append(@, QueryResult(k, i, TxQueryArgs(k, i)))]
          /\ trace' = [trace EXCEPT ![k] = nx.trace]
          /\ pc' = [pc EXCEPT ![k] = nx.pc]
          /\ idx' = [idx EXCEPT ![k] = i + 1]
    /\ UNCHANGED <<args, built, call, conn, caught, outcome, released, holder, effects>>

\* QueryFail with a catch block that releases the connection before it
\* rolls back.
QueryFailReleaseFirst(k) ==
    /\ pc[k] = "querying"
    /\ holder' = [holder EXCEPT ![conn[k]] = NoCall]
    /\ released' = [released EXCEPT ![k] = @ + 1]
    /\ trace' = [trace EXCEPT ![k] =
                    Append(Release(k, Answer(trace[k], FALSE)),
                           Ev("rollback", 0, <<>>, conn[k], NoCall))]
    /\ caught' = [caught EXCEPT ![k] = DriverError(k, "query", idx[k])]
    /\ pc' = [pc EXCEPT ![k] = "rollingback"]
    /\ UNCHANGED <<args, built, call, conn, idx, results, outcome, effects>>

QueryFail(k) ==
    /\ pc[k] = "querying"
    /\ trace' = [trace EXCEPT ![k] = CatchSend(k, Answer(trace[k], FALSE))]
    /\ caught' = [caught EXCEPT ![k] = DriverError(k, "query", idx[k])]
    /\ pc' = [pc EXCEPT ![k] = "rollingback"]
    /\ UNCHANGED <<args, built, call, conn, idx, results, outcome, released, holder, effects>>

CommitOk(k) ==
    /\ pc[k] = "committing"
    /\ trace' = [trace EXCEPT ![k] = Release(k, Answer(trace[k], TRUE))]
    /\ holder' = [holder EXCEPT ![conn[k]] = NoCall]
    /\ released' = [released EXCEPT ![k] = @ + 1]
    /\ effects' = effects \cup {<<k, i>> : i \in 1..Len(results[k])}
    /\ outcome' = [outcome EXCEPT ![k] = Resolved(ReturnValue(k, results[k]))]
    /\ pc' = [pc EXCEPT ![k] = "done"]
    /\ UNCHANGED <<args, built, call, conn, idx, results, caught>>

CommitFail(k) ==
    /\ pc[k] = "committing"
    /\ trace' = [trace EXCEPT ![k] = CatchSend(k, Answer(trace[k], FALSE))]
    /\ caught' = [caught EXCEPT ![k] = DriverError(k, "commit", 0)]
    /\ pc' = [pc EXCEPT ![k] = "rollingback"]
    /\ UNCHANGED <<args, built, call, conn, idx, results, outcome, released, holder, effects>>

\* Thrown with the rollback's own error in every case.
ThrownRollbackError(k, rollbackOk) == DriverError(k, "rollback", 0)

\* Thrown with the rollback's rejection swallowed: the first error always.
ThrownOriginal(k, rollbackOk) == caught[k]

\* The error the catch block leaves the call with: `throw error` after the
\* rollback, or the rejection of rollbackTransaction() when that one fails.
Thrown(k, rollbackOk) ==
    IF rollbackOk THEN caught[k] ELSE DriverError(k, "rollback", 0)

\* RollbackDone with connection.release() after the catch block instead of in
\* a finally block: a throwing rollback skips it.
RollbackDoneNoFinally(k, ok) ==
    /\ pc[k] = "rollingback"
    /\ trace' = [trace EXCEPT ![k] =
                    IF ok THEN Release(k, Answer(trace[k], ok)) ELSE Answer(trace[k], ok)]
    /\ holder' = [holder EXCEPT ![conn[k]] = IF ok THEN NoCall ELSE @]
    /\ released' = [released EXCEPT ![k] = IF ok THEN @ + 1 ELSE @]
    /\ outcome' = [outcome EXCEPT ![k] = Rejected(Thrown(k, ok))]
    /\ pc' = [pc EXCEPT ![k] = "done"]
    /\ UNCHANGED <<args, built, call, conn, idx, results, caught, effects>>

\* RollbackDone with a catch block that returns what it has instead of
\* rethrowing.
RollbackDoneReturnsPartial(k, ok) ==
    /\ pc[k] = "rollingback"
    /\ trace' = [trace EXCEPT ![k] = Release(k, Answer(trace[k], ok))]
    /\ holder' = [holder EXCEPT ![conn[k]] = NoCall]
    /\ released' = [released EXCEPT ![k] = @ + 1]
    /\ outcome' = [outcome EXCEPT ![k] =
                      IF ok THEN Resolved(ReturnValue(k, results[k]))
                      ELSE Rejected(Thrown(k, ok))]
    /\ pc' = [pc EXCEPT ![k] = "done"]
    /\ UNCHANGED <<args, built, call, conn, idx, results, caught, effects>>

\* The rollback's callback: the catch block ends, then finally, then the
\* promise of transaction() rejects.
RollbackDone(k, ok) ==
    /\ pc[k] = "rollingback"
    /\ trace' = [trace EXCEPT ![k] = Release(k, Answer(trace[k], ok))]
    /\ holder' = [holder EXCEPT ![conn[k]] = NoCall]
    /\ released' = [released EXCEPT ![k] = @ + 1]
    /\ outcome' = [outcome EXCEPT ![k] = Rejected(Thrown(k, ok))]
    /\ pc' = [pc EXCEPT ![k] = "done"]
    /\ UNCHANGED <<args, built, call, conn, idx, results, caught, effects>>

\* ------------------------------------------------- query() through the pool
\* query(sql): connection defaults to this.pool.
StartQuery(k) ==
    /\ pc[k] = "idle"
    /\ call' = [call EXCEPT ![k] =
                   [kind |-> "query", useTransaction |-> None, input |-> <<>>,
                    queries |-> SampleQueries(1)]]
    /\ idx' = [idx EXCEPT ![k] = 1]
    /\ pc' = [pc EXCEPT ![k] = "pooled"]
    /\ UNCHANGED <<args, built, conn, results, caught, outcome, released, holder, trace, effects>>

\* The statement query(query) sends when handed a Query object.
PoolQueryArgs(k, i) == QueryArgs(call[k].queries[i].query, call[k].queries[i].values)

\* The connection the pool runs the statement of call k on.
PoolConn(k) == CHOOSE c \in Conns : holder[c] = k

\* pool.query(): the pool runs the statement on a connection that is free.
PoolQuerySent(k, c) ==
    /\ pc[k] = "pooled"
    /\ FirstFree(c)
    /\ holder' = [holder EXCEPT ![c] = k]
    /\ trace' = [trace EXCEPT ![k] =
                    Append(@, Ev("query", idx[k], PoolQueryArgs(k, idx[k]), c, k))]
    /\ pc' = [pc EXCEPT ![k] = "poolquerying"]
    /\ UNCHANGED <<args, built, call, conn, idx, results, caught, outcome, released, effects>>

\* What the API call does once query i of its loop resolved.
AfterPoolQuery(k, i, rs) ==
    IF call[k].kind = "createTable" /\ i < Len(call[k].queries)
    THEN [pc |-> "pooled", outcome |-> Pending]
    ELSE [pc |-> "done",
          outcome |-> Resolved(IF call[k].kind = "createTable" THEN <<>> ELSE rs[Len(rs)])]

PoolQueryOk(k) ==
    /\ pc[k] = "poolquerying"
    /\ LET i == idx[k]
           rs == Append(results[k], QueryResult(k, i, PoolQueryArgs(k, i)))
           nx == AfterPoolQuery(k, i, rs)
       IN /\ trace' = [trace EXCEPT ![k] = Answer(trace[k], TRUE)]
          /\ holder' = [holder EXCEPT ![PoolConn(k)] = NoCall]
          /\ results' = [results EXCEPT ![k] = rs]
          /\ effects' = effects \cup {<<k, i>>}
          /\ pc' = [pc EXCEPT ![k] = nx.pc]
          /\ outcome' = [outcome EXCEPT ![k] = nx.outcome]
          /\ idx' = [idx EXCEPT ![k] = IF nx.pc = "pooled" THEN i + 1 ELSE i]
    /\ UNCHANGED <<args, built, call, conn, caught, released>>

PoolQueryFail(k) ==
    /\ pc[k] = "poolquerying"
    /\ trace' = [trace EXCEPT ![k] = Answer(trace[k], FALSE)]
    /\ holder' = [holder EXCEPT ![PoolConn(k)] = NoCall]
    /\ outcome' = [outcome EXCEPT ![k] = Rejected(DriverError(k, "query", idx[k]))]
    /\ pc' = [pc EXCEPT ![k] = "done"]
    /\ UNCHANGED <<args, built, call, conn, idx, results, caught, released, effects>>

\* ------------------------------- createTable, multiInsert, multiUpdate
\* The parameter `useTransaction = true`: true unless the caller passes a value.
UseTransaction(given) == IF IsDefined(given) THEN given[1] ELSE TRUE

\* Run with the useTransaction test left out: always transaction(q).
RunInTransaction(k, kind, a, useTransaction, q) ==
    /\ call' = [call EXCEPT ![k] =
                   [kind |-> kind, useTransaction |-> useTransaction, input |-> a,
                    queries |-> q]]
    /\ pc' = [pc EXCEPT ![k] = "connecting"]
    /\ idx' = [idx EXCEPT ![k] = 0]
    /\ UNCHANGED <<args, built, conn, results, caught, outcome, released, holder, trace, effects>>

\* The API call starts the statements q it prepared: transaction(q) when
\* useTransaction, else query() of each through the pool.
Run(k, kind, a, useTransaction, q) ==
    /\ call' = [call EXCEPT ![k] =
                   [kind |-> kind, useTransaction |-> useTransaction, input |-> a,
                    queries |-> q]]
    /\ pc' = [pc EXCEPT ![k] =
                 IF UseTransaction(useTransaction) THEN "connecting" ELSE "pooled"]
    /\ idx' = [idx EXCEPT ![k] = IF UseTransaction(useTransaction) THEN 0 ELSE 1]
    /\ UNCHANGED <<args, built, conn, results, caught, outcome, released, holder, trace, effects>>

\* The prepare* method threw: the promise of the async method rejects.
Reject(k, kind, a, useTransaction, e) ==
    /\ call' = [call EXCEPT ![k] =
                   [kind |-> kind, useTransaction |-> useTransaction, input |-> a,
                    queries |-> <<>>]]
    /\ outcome' = [outcome EXCEPT ![k] = Rejected(e)]
    /\ pc' = [pc EXCEPT ![k] = "done"]
    /\ UNCHANGED <<args, built, conn, idx, results, caught, released, holder, trace, effects>>

createTable(k, a, useTransaction) ==
    /\ pc[k] = "idle"
    /\ Run(k, "createTable", a, useTransaction,
           prepareCreateTable(a.name, a.fields, a.primaryKey, a.tableOptions))

multiInsert(k, a, useTransaction) ==
    /\ pc[k] = "idle"
    /\ LET query == prepareMultiInsert(a.table, a.columns, a.values)
       IN IF query.ok
          THEN Run(k, "multiInsert", a, useTransaction, <<query.value>>)
          ELSE Reject(k, "multiInsert", a, useTransaction, query.error)

multiUpdate(k, a, useTransaction) ==
    /\ pc[k] = "idle"
    /\ LET query == prepareMultiUpdate(a.table, a.primaryKey, a.columns, a.values)
       IN IF query.ok
          THEN Run(k, "multiUpdate", a, useTransaction, <<query.value>>)
          ELSE Reject(k, "multiUpdate", a, useTransaction, query.error)

\* ---------------------------------------- direct calls of the prepare* methods
PrepareMultiInsert ==
    /\ args.fn = "prepareMultiInsert" /\ built = NotBuilt
    /\ built' = prepareMultiInsert(args.table, args.columns, args.values)
    /\ UNCHANGED <<args, execVars>>

PrepareMultiUpdate ==
    /\ args.fn = "prepareMultiUpdate" /\ built = NotBuilt
    /\ built' = prepareMultiUpdate(args.table, args.primaryKey, args.columns, args.values)
    /\ UNCHANGED <<args, execVars>>

PrepareCreateTable ==
    /\ args.fn = "prepareCreateTable" /\ built = NotBuilt
    /\ built' = Returned(prepareCreateTable(args.name, args.fields, args.primaryKey,
                                           args.tableOptions))
    /\ UNCHANGED <<args, execVars>>

\* The statements use, listTables and dropTable build before they send them.
Use ==
    /\ args.fn = "use" /\ built = NotBuilt
    /\ built' = Returned(<<[query |-> useQuery(args.database), values |-> Undefined]>>)
    /\ UNCHANGED <<args, execVars>>

ListTables ==
    /\ args.fn = "listTables" /\ built = NotBuilt
    /\ built' = Returned(<<[query |-> listTablesQuery(args.database), values |-> Undefined]>>)
    /\ UNCHANGED <<args, execVars>>

DropTable ==
    /\ args.fn = "dropTable" /\ built = NotBuilt
    /\ built' = Returned(dropTableQueries(args.tables))
    /\ UNCHANGED <<args, execVars>>

\* new MySQL(config)
NewMySQL ==
    /\ args.fn = "constructor" /\ built = NotBuilt
    /\ built' = Returned(Constructor(args.config))
    /\ UNCHANGED <<args, execVars>>

\* ------------------------------------------------------------ specification
NoCallYet == [kind |-> "none", useTransaction |-> None, input |-> <<>>, queries |-> <<>>]
NoError == [type |-> "none", by |-> 0, op |-> "none", i |-> 0]

ExecInit ==
    /\ pc = [k \in Calls |-> "idle"]
    /\ call = [k \in Calls |-> NoCallYet]
    /\ conn = [k \in Calls |-> NoConn]
    /\ idx = [k \in Calls |-> 0]
    /\ results = [k \in Calls |-> <<>>]
    /\ caught = [k \in Calls |-> NoError]
    /\ outcome = [k \in Calls |-> Pending]
    /\ released = [k \in Calls |-> 0]
    /\ holder = [c \in Conns |-> NoCall]
    /\ trace = [k \in Calls |-> <<>>]
    /\ effects = {}

Init ==
    /\ ExecInit
    /\ args = NoArgs
    /\ built = NotBuilt

Transaction(k) ==
    \/ \E c \in Conns : ConnGranted(k, c)
    \/ ConnFailed(k)
    \/ BeginOk(k)
    \/ BeginFail(k)
    \/ QueryOk(k)
    \/ QueryFail(k)
    \/ CommitOk(k)
    \/ CommitFail(k)
    \/ \E ok \in BOOLEAN : RollbackDone(k, ok)

PoolQuery(k) ==
    \/ \E c \in Conns : PoolQuerySent(k, c)
    \/ PoolQueryOk(k)
    \/ PoolQueryFail(k)

\* Callers of transaction() and query(), in flight together.
Next ==
    \/ \E k \in Calls, n \in 0..MaxStmts : StartTransaction(k, n)
    \/ \E k \in Calls : StartQuery(k)
    \/ \E k \in Calls : Transaction(k)
    \/ \E k \in Calls : PoolQuery(k)

Spec == Init /\ [][Next]_vars

\* One call of createTable, multiInsert or multiUpdate, in either mode.
ApiCalls == {1}

\* What a caller passes as useTransaction: nothing, true or false.
Modes == {None, Some(TRUE), Some(FALSE)}

NextApi ==
    \/ \E k \in ApiCalls : pc[k] = "idle" /\ \E a \in ApiCreateArgs, useTransaction \in Modes :
          createTable(k, a, useTransaction)
    \/ \E k \in ApiCalls : pc[k] = "idle" /\ \E a \in InsertArgs, useTransaction \in Modes :
          multiInsert(k, a, useTransaction)
    \/ \E k \in ApiCalls : pc[k] = "idle" /\ \E a \in UpdateArgs, useTransaction \in Modes :
          multiUpdate(k, a, useTransaction)
    \/ \E k \in ApiCalls : Transaction(k)
    \/ \E k \in ApiCalls : PoolQuery(k)

SpecApi == Init /\ [][NextApi]_vars

\* A direct call of one prepare* method, the statements of use, listTables or
\* dropTable, or the constructor, on arguments of the caller's choice.
InitBuild ==
    /\ ExecInit
    /\ args \in InsertArgs \cup UpdateArgs \cup CreateArgs
                \cup UseArgs \cup ListTablesArgs \cup DropTableArgs \cup ConstructorArgs
    /\ built = NotBuilt

NextBuild ==
    \/ PrepareMultiInsert
    \/ PrepareMultiUpdate
    \/ PrepareCreateTable
    \/ Use
    \/ ListTables
    \/ DropTable
    \/ NewMySQL

SpecBuild == InitBuild /\ [][NextBuild]_vars

\* ------------------------------------------------------------------ claims
IsTx(k) == call[k].kind = "transaction"
Steps(k) == 1..Len(trace[k])
Sent(k, op) == {p \in Steps(k) : trace[k][p].op = op}
Failed(k, op) == {p \in Sent(k, op) : trace[k][p].st = "fail"}
Succeeded(k, op) == {p \in Sent(k, op) : trace[k][p].st = "ok"}
Settled(k) == pc[k] = "done"
HeldBy(k) == {c \in Conns : holder[c] = k}
CheckedOut == {c \in Conns : holder[c] # NoCall}

\* C1: a transaction() call that obtained a connection has released it exactly
\* once when it settles (and not before), on each path: success, or a failure of
\* begin, a statement, commit or rollback; once every call has settled no
\* connection is checked out, as before the calls.
C1_ReleasedExactlyOnce ==
    /\ \A k \in Calls : IsTx(k) =>
          /\ released[k] = (IF Settled(k) /\ conn[k] # NoConn THEN 1 ELSE 0)
          /\ Cardinality(Sent(k, "release")) = released[k]
          /\ \A p \in Sent(k, "release") : trace[k][p].c = conn[k] /\ trace[k][p].h = k
          /\ Settled(k) => HeldBy(k) = {}
          /\ (~Settled(k) /\ conn[k] # NoConn) => HeldBy(k) = {conn[k]}
    /\ (\A k \in Calls : pc[k] \in {"idle", "done"}) => CheckedOut = {}

\* Two calls have settled, one resolved and one whose rollback failed, and
\* the pool is back at nothing checked out.
C1_Witness ==
    \E k, j \in Calls :
        /\ IsTx(k) /\ IsTx(j) /\ Settled(k) /\ Settled(j)
        /\ outcome[k].st = "resolved" /\ Len(call[k].queries) = MaxStmts
        /\ Failed(j, "rollback") # {} /\ released[j] = 1
        /\ CheckedOut = {}

\* C2: when a statement of the batch failed and the rollback succeeded, the
\* rollback was sent on the call's connection after the failing statement and
\* before the call rejected, no commit was sent, and the call rejects with the
\* failing statement's own driver error.
C2_RollbackThenOriginalError ==
    \A k \in Calls : IsTx(k) =>
        /\ (pc[k] = "rollingback") => outcome[k] = Pending
        /\ \A p \in Failed(k, "query") :
              (Settled(k) /\ Succeeded(k, "rollback") # {}) =>
                  /\ \E r \in Succeeded(k, "rollback") :
                        r > p /\ trace[k][r].c = trace[k][p].c /\ trace[k][r].c = conn[k]
                  /\ Sent(k, "commit") = {}
                  /\ outcome[k] = Rejected(DriverError(k, "query", trace[k][p].i))

\* Statements [A, B]: A succeeded, B failed, the rollback succeeded and the
\* call has rejected.
C2_Witness ==
    \E k \in Calls :
        /\ IsTx(k) /\ Settled(k) /\ Len(call[k].queries) = 2
        /\ \E p \in Failed(k, "query") : trace[k][p].i = 2
        /\ Succeeded(k, "rollback") # {}

\* C3: on the acquired connection the call sends begin first, then statement
\* i as its (i+1)-th operation, each with the text and values of queries[i]
\* and only after the operation before it succeeded, then commit only after
\* begin and all the statements succeeded; after a failed operation only the
\* rollback and the release follow.
C3_BeginStatementsInOrderCommit ==
    \A k \in Calls : IsTx(k) =>
        \A p \in Steps(k) :
            LET e == trace[k][p]
                n == Len(call[k].queries)
            IN /\ e.c = conn[k]
               /\ (e.op = "begin") <=> (p = 1)
               /\ e.op = "query" =>
                     /\ e.i = p - 1 /\ e.i \in 1..n
                     /\ e.q.query = call[k].queries[e.i].query
                     /\ e.q.values = (IF call[k].queries[e.i].values = Undefined
                                      THEN <<>> ELSE call[k].queries[e.i].values)
                     /\ trace[k][p - 1].st = "ok"
               /\ e.op = "commit" =>
                     /\ p = n + 2
                     /\ \A r \in 1..(p - 1) : trace[k][r].st = "ok"
               /\ (e.st = "fail" /\ p < Len(trace[k])) =>
                     /\ trace[k][p + 1].op = "rollback" \/ e.op = "rollback"
                     /\ \A r \in (p + 1)..Len(trace[k]) :
                           trace[k][r].op \in {"rollback", "release"}

\* A batch of MaxStmts statements went through begin, every statement and
\* commit.
C3_Witness ==
    \E k \in Calls :
        /\ IsTx(k) /\ Len(call[k].queries) = MaxStmts /\ MaxStmts >= 2
        /\ Succeeded(k, "commit") # {}
        /\ Cardinality(Succeeded(k, "query")) = MaxStmts

\* C4: the call resolves only when its commit succeeded, with one outcome per
\* statement in statement order; in every other case it rejects and the caller
\* gets no outcome, not even those of the statements that succeeded.
C4_OutcomesOnlyOnCommit ==
    \A k \in Calls : (IsTx(k) /\ Settled(k)) =>
        IF Succeeded(k, "commit") # {}
        THEN /\ outcome[k].st = "resolved"
             /\ Len(outcome[k].val) = Len(call[k].queries)
             /\ \A i \in 1..Len(call[k].queries) :
                   /\ outcome[k].val[i].rows = DriverRows(k, i)
                   /\ outcome[k].val[i].query = call[k].queries[i].query
        ELSE outcome[k].st = "rejected"

\* A statement succeeded, a later one failed, the batch was rolled back and
\* the call rejected.
C4_Witness ==
    \E k \in Calls :
        /\ IsTx(k) /\ Settled(k)
        /\ Succeeded(k, "query") # {} /\ Failed(k, "query") # {}
        /\ Succeeded(k, "rollback") # {}
        /\ outcome[k].st = "rejected"

\* The errors a settled call hands to its caller.
Surfaced(k) == IF outcome[k].st = "rejected" THEN {outcome[k].err} ELSE {}

\* C5 as claimed: when a statement failed and the rollback failed too, the
\* caller receives both the statement's error and the rollback's error.
C5_BothErrorsSurfaced ==
    \A k \in Calls : (IsTx(k) /\ Settled(k)) =>
        \A p \in Failed(k, "query") :
            Failed(k, "rollback") # {} =>
                /\ DriverError(k, "rollback", 0) \in Surfaced(k)
                /\ DriverError(k, "query", trace[k][p].i) \in Surfaced(k)

\* C5 as amended: when a statement failed and the rollback failed too, the
\* caller receives the rollback's error and only that one: the statement's
\* error is not surfaced.
C5_OnlyRollbackErrorSurfaced ==
    \A k \in Calls : (IsTx(k) /\ Settled(k)) =>
        \A p \in Failed(k, "query") :
            Failed(k, "rollback") # {} =>
                /\ Surfaced(k) = {DriverError(k, "rollback", 0)}
                /\ DriverError(k, "query", trace[k][p].i) \notin Surfaced(k)

\* A statement failed, the rollback failed, and the call has rejected.
C5_Witness ==
    \E k \in Calls :
        /\ IsTx(k) /\ Settled(k)
        /\ Failed(k, "query") # {} /\ Failed(k, "rollback") # {}
        /\ outcome[k].st = "rejected"

\* C6: every operation a call sends on a connection is sent while the pool
\* has that connection checked out to that very call, so a connection held by
\* a transaction() call sees no operation of another call; and the call
\* releases it only after its commit or rollback has completed.
C6_NoInterleavingOnHeldConnection ==
    \A k \in Calls :
        /\ \A p \in Steps(k) : trace[k][p].h = k
        /\ IsTx(k) =>
              /\ \A p \in Sent(k, "release") :
                    /\ p > 1
                    /\ trace[k][p - 1].op \in {"commit", "rollback"}
                    /\ trace[k][p - 1].st \in {"ok", "fail"}
              /\ (pc[k] \in {"beginning", "querying", "committing", "rollingback"}) =>
                    holder[conn[k]] = k

\* A transaction() call holds the connection in the middle of its batch
\* while a query() call is in flight.
C6_Witness ==
    \E k, j \in Calls :
        /\ k # j /\ IsTx(k) /\ pc[k] = "querying" /\ idx[k] = 2
        /\ call[j].kind = "query" /\ pc[j] \in {"pooled", "poolquerying"}

\* The inputs multiInsert and multiUpdate must refuse.
BadRows(a) ==
    \/ Len(a.values) = 0
    \/ Len(a.columns) # 0 /\ \E r \in 1..Len(a.values) : Len(a.values[r]) # Len(a.columns)

BadInput(c) ==
    \/ c.kind = "multiInsert" /\ BadRows(c.input)
    \/ c.kind = "multiUpdate"
          /\ (BadRows(c.input) \/ Len(c.input.columns) = 0 \/ Len(c.input.primaryKey) = 0)

\* C7: multiInsert and multiUpdate, in either mode, reject with a validation
\* error when rows is empty or a row's length differs from a non-empty column
\* list (multiUpdate also when columns or primaryKey is empty), and have then
\* done no I/O: no connection acquired, nothing sent, nothing released.
C7_ValidationBeforeIO ==
    \A k \in Calls : BadInput(call[k]) =>
        /\ Settled(k)
        /\ outcome[k].st = "rejected"
        /\ outcome[k].err.type = "validation"
        /\ trace[k] = <<>>
        /\ conn[k] = NoConn /\ HeldBy(k) = {} /\ released[k] = 0
        /\ \A e \in effects : e[1] # k

\* multiInsert refused rows of which only the second disagrees with the
\* column list, in the mode that would not use a transaction.
C7_Witness ==
    \E k \in Calls :
        /\ call[k].kind = "multiInsert" /\ Settled(k)
        /\ call[k].useTransaction = Some(FALSE)
        /\ Len(call[k].input.columns) = 2 /\ Len(call[k].input.values) = 2
        /\ Len(call[k].input.values[1]) = 2 /\ Len(call[k].input.values[2]) # 2
        /\ outcome[k].st = "rejected"

\* The statements createTable generates for the arguments of call k.
Generated(k) ==
    prepareCreateTable(call[k].input.name, call[k].input.fields,
                       call[k].input.primaryKey, call[k].input.tableOptions)

\* Statement i of call k as the trace entry e sent it.
SentAs(k, e, i) ==
    /\ e.op = "query" /\ e.i = i
    /\ e.q.query = Generated(k)[i].query /\ e.q.values = Generated(k)[i].values

\* C8: createTable in the default mode (useTransaction omitted or true) sends
\* its generated statements in one transaction on one acquired connection: one
\* begin, the statements in order, then one commit, or a rollback after the
\* first failure.  With useTransaction = false it sends the same statements in
\* the same order as pool queries, with no begin, commit or rollback, stops at
\* the first statement that fails, and the statements before it keep their effect.
C8_CreateTableModes ==
    \A k \in Calls : call[k].kind = "createTable" =>
        LET t == trace[k]
            n == Len(Generated(k))
        IN IF call[k].useTransaction # Some(FALSE)
           THEN /\ \A p \in Steps(k) :
                      /\ t[p].c = conn[k]
                      /\ (t[p].op = "begin") <=> (p = 1)
                      /\ t[p].op = "query" => SentAs(k, t[p], p - 1) /\ t[p - 1].st = "ok"
                      /\ t[p].op = "commit" => p = n + 2 /\ \A r \in 1..(p - 1) : t[r].st = "ok"
                      /\ (t[p].st = "fail" /\ t[p].op # "rollback" /\ p < Len(t)) =>
                            t[p + 1].op = "rollback"
                /\ Cardinality(Sent(k, "commit")) <= 1
                /\ Cardinality(Sent(k, "rollback")) <= 1
                /\ Settled(k) /\ conn[k] # NoConn =>
                      /\ Sent(k, "commit") \cup Sent(k, "rollback") # {}
                      /\ (outcome[k].st = "resolved") <=> (Succeeded(k, "commit") # {})
                /\ (Succeeded(k, "commit") = {}) => \A i \in 1..n : <<k, i>> \notin effects
           ELSE /\ \A p \in Steps(k) :
                      /\ SentAs(k, t[p], p)
                      /\ p < Len(t) => t[p].st = "ok"
                      /\ t[p].st = "ok" => <<k, p>> \in effects
                      /\ t[p].st = "fail" =>
                            Settled(k) /\ outcome[k] = Rejected(DriverError(k, "query", p))
                /\ Len(t) <= n
                /\ conn[k] = NoConn /\ released[k] = 0
                /\ (Settled(k) /\ Failed(k, "query") = {}) =>
                      Len(t) = n /\ outcome[k] = Resolved(<<>>)

\* Without a transaction, the CREATE TABLE succeeded and a CREATE UNIQUE
\* INDEX after it failed: the call rejected and the table stays.
C8_Witness ==
    \E k \in Calls :
        /\ call[k].kind = "createTable" /\ call[k].useTransaction = Some(FALSE)
        /\ Settled(k) /\ Len(trace[k]) = 2
        /\ trace[k][1].st = "ok" /\ trace[k][2].st = "fail"
        /\ <<k, 1>> \in effects

\* The number of '?' in each parenthesised group of `text` from position p on;
\* cur counts inside a group and is -1 outside.
RECURSIVE GroupSizes(_, _, _)
GroupSizes(text, p, cur) ==
    IF p > Len(text) THEN <<>>
    ELSE IF text[p] = Kw("(") THEN GroupSizes(text, p + 1, 0)
    ELSE IF text[p] = Kw(")") THEN <<cur>> \o GroupSizes(text, p + 1, -1)
    ELSE IF text[p] = Kw("?") THEN GroupSizes(text, p + 1, cur + 1)
    ELSE GroupSizes(text, p + 1, cur)

\* Where the piece `piece` stands in `text` (0: nowhere).
PositionOf(text, piece) ==
    IF \E p \in 1..Len(text) : text[p] = piece
    THEN CHOOSE p \in 1..Len(text) : text[p] = piece /\ \A r \in 1..(p - 1) : text[r] # piece
    ELSE 0

\* The placeholder groups of an INSERT: those after VALUES.
PlaceholderGroups(text) == GroupSizes(text, PositionOf(text, Kw("VALUES")) + 1, -1)

\* C9: for a non-empty column list and a non-empty row set whose rows all
\* have as many values as there are columns, prepareMultiInsert returns a
\* statement with one placeholder group per row, each of columns.length
\* placeholders, and the rows' values concatenated in row-major order.
C9_PlaceholdersAndParameters ==
    (args.fn = "prepareMultiInsert" /\ built # NotBuilt
       /\ Len(args.columns) # 0 /\ Len(args.values) # 0
       /\ \A r \in 1..Len(args.values) : Len(args.values[r]) = Len(args.columns)) =>
        LET n == Len(args.columns)
        IN /\ built.ok
           /\ PlaceholderGroups(built.value.query) = [r \in 1..Len(args.values) |-> n]
           /\ Len(built.value.values) = Len(args.values) * n
           /\ \A r \in 1..Len(args.values) : \A c \in 1..n :
                 built.value.values[(r - 1) * n + c] = args.values[r][c]

\* MaxRows rows of MaxCols values each were prepared.
C9_Witness ==
    /\ args.fn = "prepareMultiInsert" /\ built # NotBuilt /\ built.ok
    /\ Len(args.columns) = MaxCols /\ Len(args.values) = MaxRows
    /\ MaxCols >= 2 /\ MaxRows >= 2

\* The ON DUPLICATE KEY UPDATE clause of `text`: what follows the keyword.
UpdateClause(text) ==
    SubSeq(text, PositionOf(text, Kw("ON DUPLICATE KEY UPDATE")) + 1, Len(text))

\* The columns a clause assigns to, in order: identifiers followed by " =".
RECURSIVE Assigned(_, _)
Assigned(clause, p) ==
    IF p > Len(clause) THEN <<>>
    ELSE (IF clause[p][1] = "id" /\ p + 2 <= Len(clause)
             /\ clause[p + 1] = Sp /\ clause[p + 2] = Kw("=")
          THEN <<clause[p]>> ELSE <<>>)
         \o Assigned(clause, p + 1)

\* The columns of `columns` that are not in `primaryKey`, in order.
RECURSIVE NonKey(_, _)
NonKey(primaryKey, columns) ==
    IF Len(columns) = 0 THEN <<>>
    ELSE (IF \E i \in 1..Len(primaryKey) : primaryKey[i] = columns[1]
          THEN <<>> ELSE <<columns[1]>>)
         \o NonKey(primaryKey, Tail(columns))

IsCreateTable(text) == Len(text) > 0 /\ text[1] = Kw("CREATE TABLE IF NOT EXISTS")
IsUniqueIndex(text) == Len(text) > 0 /\ text[1] = Kw("CREATE UNIQUE INDEX IF NOT EXISTS")

\* The column a CREATE UNIQUE INDEX is on: what stands between its parentheses.
IndexedColumn(text) ==
    SubSeq(text, PositionOf(text, Kw("(")) + 1, PositionOf(text, Kw(")")) - 1)

FlaggedUnique(column) == column.unique = Some(TRUE)
HasDefault(column) == column.default # None

\* C11: what prepareCreateTable returns starts with the one CREATE TABLE
\* statement, followed by exactly one CREATE UNIQUE INDEX per column whose
\* `unique` is true, in column order, and by nothing else; the CREATE TABLE
\* carries the default values of the columns that have one, in column order,
\* and the index statements carry no values.
C11_CreateTableThenUniqueIndexes ==
    (args.fn = "prepareCreateTable" /\ built # NotBuilt /\ built.ok) =>
        LET flagged == SelectSeq(args.fields, FlaggedUnique)
            withDefault == SelectSeq(args.fields, HasDefault)
            out == built.value
        IN /\ Len(out) = 1 + Len(flagged)
           /\ IsCreateTable(out[1].query)
           /\ out[1].values = [i \in 1..Len(withDefault) |-> withDefault[i].default[1]]
           /\ \A i \in 1..Len(flagged) :
                 /\ IsUniqueIndex(out[i + 1].query)
                 /\ IndexedColumn(out[i + 1].query) = <<escapeId(flagged[i].name)>>
                 /\ out[i + 1].values = <<>>

\* A table of MaxCols columns was prepared: two have a default value, the
\* last is flagged unique and the first says unique: false.
C11_Witness ==
    /\ args.fn = "prepareCreateTable" /\ built # NotBuilt /\ built.ok
    /\ Len(args.fields) = MaxCols /\ MaxCols >= 2
    /\ args.fields[1].default # None /\ args.fields[MaxCols].default # None
    /\ args.fields[1].unique = Some(FALSE) /\ args.fields[MaxCols].unique = Some(TRUE)
    /\ Len(built.value) = 2

\* C12: prepareCreateTable called with an empty primaryKey throws a validation
\* error and returns no statement.
C12_EmptyPrimaryKeyRejected ==
    (args.fn = "prepareCreateTable" /\ built # NotBuilt /\ Len(args.primaryKey) = 0) =>
        /\ ~built.ok
        /\ built.error.type = "validation"

\* The SQL texts the call of `args` built.
BuiltTexts ==
    IF built = NotBuilt \/ ~built.ok \/ args.fn = "constructor" THEN {}
    ELSE IF args.fn \in {"prepareMultiInsert", "prepareMultiUpdate"} THEN {built.value.query}
    ELSE {built.value[i].query : i \in 1..Len(built.value)}

\* The names of tables, columns and databases among the arguments `a`.
ForeignNames(fields) ==
    UNION {{fields[i].foreignKey[1].table, fields[i].foreignKey[1].column} :
              i \in {j \in 1..Len(fields) : fields[j].foreignKey # None}}

Names(seq) == {seq[i] : i \in 1..Len(seq)}

Identifiers(a) ==
    CASE a.fn = "prepareMultiInsert" -> {a.table} \cup Names(a.columns)
      [] a.fn = "prepareMultiUpdate" -> {a.table} \cup Names(a.columns) \cup Names(a.primaryKey)
      [] a.fn = "prepareCreateTable" ->
            {a.name} \cup {a.fields[i].name : i \in 1..Len(a.fields)}
               \cup Names(a.primaryKey) \cup ForeignNames(a.fields)
      [] a.fn = "use" -> {a.database}
      [] a.fn = "listTables" -> Names(a.database)
      [] a.fn = "dropTable" -> Names(a.tables)
      [] OTHER -> {}

\* C13: wherever the name of a table, column or database that the caller
\* passed stands in a statement a builder produced, it stands there as the
\* result of escapeId(), never as the caller's raw string.
C13_IdentifiersEscaped ==
    \A text \in BuiltTexts : \A p \in 1..Len(text) :
        text[p][2] \in Identifiers(args) => text[p][1] = "id"

\* The TLS option handed to createPool() says rejectUnauthorized: false.
VerificationOff(config) == config.ssl[1].rejectUnauthorized = Some(FALSE)

\* The caller said rejectUnauthorized: false, for the wrapper or in `ssl`.
ExplicitlyDisabled(config) ==
    \/ config.rejectUnauthorized = Some(FALSE)
    \/ config.ssl # None /\ config.ssl[1].rejectUnauthorized = Some(FALSE)

Constructed == args.fn = "constructor" /\ built # NotBuilt

\* C14 as stated: a client constructed without a TLS verification setting
\* verifies server certificates; verification is off only when the caller
\* disabled it explicitly.
C14_VerifiesUnlessDisabled ==
    Constructed => (VerificationOff(built.value) => ExplicitlyDisabled(args.config))

\* C14 as amended: with no `ssl` option given, the client is handed
\* ssl = { rejectUnauthorized: false } unless the caller passed
\* rejectUnauthorized: true, so a client constructed without any TLS setting
\* does not verify certificates; an `ssl` option the caller gave is handed on
\* unchanged.
C14_NoVerificationUnlessEnabled ==
    Constructed =>
        /\ args.config.ssl = None =>
              /\ built.value.ssl # None
              /\ VerificationOff(built.value) <=> (args.config.rejectUnauthorized # Some(TRUE))
              /\ built.value.ssl[1].rejectUnauthorized = built.value.rejectUnauthorized
        /\ args.config.ssl # None => built.value.ssl = args.config.ssl
        /\ built.value.rejectUnauthorized # None

\* A client was constructed with neither rejectUnauthorized nor ssl, and
\* the driver was told not to verify.
C14_Witness ==
    /\ Constructed
    /\ args.config.rejectUnauthorized = None /\ args.config.ssl = None
    /\ VerificationOff(built.value)

====
